---- MODULE Spec2Model ----
(***************************************************************************)
(* Model of the ETA status dashboard (src/app.py).                         *)
(*                                                                         *)
(* Two state machines share this module.                                   *)
(*   Spec, SpecFilters : one render cycle of the script for one session,   *)
(*       from load_data to the summary tables (lines 82-271).  The data    *)
(*       file, the identity and the widget values are inputs.              *)
(*   SpecSessions : several browser sessions running the script            *)
(*       concurrently against the one data file and the one data cache     *)
(*       (lines 18-82).                                                    *)
(* Pandas and Streamlit calls are modelled by what they do to the values   *)
(* the script holds; where that is not visible in app.py the comment at    *)
(* the definition says which library behaviour it states.                  *)
(***************************************************************************)
EXTENDS Integers, Sequences, FiniteSets, TLC

VARIABLES
    \* ---- one render cycle
    data,              \* rows of uploads/latest_uploaded.xlsx as read by read_excel
    current_user,      \* line 28
    current_role,      \* line 29
    pc,                \* position of the script
    df,                \* the non-date view
    df_time,           \* the date view
    region_filter, woreda_filter, organizer_filter, event_filter, username_filter,
    date_range,        \* value returned by st.sidebar.date_input
    out,               \* everything the script hands to st.metric / charts / tables
    \* ---- concurrent sessions
    session_state,     \* st.session_state of each session
    spc,               \* position of each session's script run
    file,              \* bytes of DATA_PATH
    cache,             \* entry of the live st.cache_data function cache for load_data(DATA_PATH)
    detached,          \* per session: the cache object its load_data call looked up has been dropped
    loaded,            \* per session: value its load_data call is about to return / returned
    settled,           \* per session: no upload was in progress when its load_data call began, none began since
    uploads,           \* number of uploads started so far
    lastWritten        \* upload whose f.write finished last

pvars == <<data, current_user, current_role, pc, df, df_time, region_filter,
           woreda_filter, organizer_filter, event_filter, username_filter,
           date_range, out>>
svars == <<session_state, spc, file, cache, detached, loaded, settled,
           uploads, lastWritten>>
vars == <<pvars, svars>>

(***************************************************************************)
(* Values                                                                  *)
(***************************************************************************)
\* A missing cell (pandas NaN / None).
NaN == "NaN"
\* pd.NaT, the result of a failed timestamp parse.
NaT == -1

\* Largest number of rows of a data file.
MaxRows == 2
\* date.today() as a day number (date.toordinal()).
Today == 40
\* Calendar months are modelled as blocks of DaysPerMonth consecutive day numbers.
DaysPerMonth == 30
HoursPerDay == 24
\* timedelta(days=6) of line 194.
WindowDays == 6

\* A received_on cell: an Excel date/time cell (hours since day 0), a text
\* cell that is not a date, or an empty cell.
Timestamp(day, hour) == [kind |-> "timestamp", hours |-> day * HoursPerDay + hour]
Garbage == [kind |-> "text", hours |-> 0]
Missing == [kind |-> "missing", hours |-> 0]

Row(u, r, w, o, e, t) ==
    [username |-> u, region_name |-> r, woreda_name |-> w,
     event_organizer_name |-> o, event_id |-> e, received_on |-> t]

SeqsUpTo(S, n) == UNION {[1..k -> S] : k \in 0..n}

(***************************************************************************)
(* pandas helpers                                                          *)
(***************************************************************************)
Indices(d) == 1..Len(d)

\* Series.dropna().unique() of a text column
Unique(d, col) == {d[i][col] : i \in Indices(d)} \ {NaN}

\* Series.unique() of the date or month column of df_time, which hold no
\* missing value: line 93 dropped every row without a timestamp.
Days(d, col) == {d[i][col] : i \in Indices(d)}

\* Series.nunique()
nunique(d, col) == Cardinality(Unique(d, col))

\* Series.isin(values), on one cell
isin(v, values) == v \in values

\* groupby(col).size() over the group keys `keys`: a row whose key is NaN is
\* in no group (dropna=True is the default), so `keys` never holds NaN.
GroupSize(d, col, keys) ==
    [k \in keys |-> Cardinality({i \in Indices(d) : d[i][col] = k})]

\* groupby([c1, c2]).size(): a row with a NaN in either key is in no group.
GroupSize2(d, c1, keys1, c2, keys2) ==
    LET present == {k \in keys1 \X keys2 :
                      \E i \in Indices(d) : d[i][c1] = k[1] /\ d[i][c2] = k[2]}
    IN  [k \in present |->
            Cardinality({i \in Indices(d) : d[i][c1] = k[1] /\ d[i][c2] = k[2]})]

\* reset_index(name="records") of a groupby over an integer key: one entry
\* per group, in ascending key order (groupby sorts its keys).
RECURSIVE ByKey(_, _)
ByKey(g, keys) ==
    IF keys = {} THEN <<>>
    ELSE LET m == CHOOSE x \in keys : \A y \in keys : x <= y
         IN  <<[key |-> m, records |-> g[m]]>> \o ByKey(g, keys \ {m})

\* .reset_index(name="records").sort_values("records", ascending=False):
\* one entry per group, largest count first; the order among equal counts
\* is whatever the sort leaves.
RECURSIVE ByRecordsDesc(_, _)
ByRecordsDesc(g, keys) ==
    IF keys = {} THEN <<>>
    ELSE LET m == CHOOSE x \in keys : \A y \in keys : g[x] >= g[y]
         IN  <<[key |-> m, records |-> g[m]]>> \o ByRecordsDesc(g, keys \ {m})

(***************************************************************************)
(* The steps of the script, as functions of the values they read           *)
(***************************************************************************)
\* pd.to_datetime(cell, errors="coerce")
to_datetime(cell) == IF cell.kind = "timestamp" THEN cell.hours ELSE NaT

\* .dt.date
DateOf(ts) == ts \div HoursPerDay
\* .dt.to_period("M").astype(str), and today.strftime("%Y-%m") for a date
MonthOf(day) == day \div DaysPerMonth

\* lines 87-96
DateHandling(d) ==
    LET parsed == [i \in Indices(d) |->
                     [d[i] EXCEPT !.received_on = to_datetime(d[i].received_on)]]
        kept   == SelectSeq(parsed, LAMBDA r : r.received_on # NaT)
    IN  [i \in Indices(kept) |->
            [username |-> kept[i].username,
             region_name |-> kept[i].region_name,
             woreda_name |-> kept[i].woreda_name,
             event_organizer_name |-> kept[i].event_organizer_name,
             event_id |-> kept[i].event_id,
             received_on |-> kept[i].received_on,
             date |-> DateOf(kept[i].received_on),
             month |-> MonthOf(DateOf(kept[i].received_on))]]

\* Slip: the role test of line 101 the wrong way round.
AccessControlFilter_Inverted(d, user, role) ==
    IF role = "admin" THEN SelectSeq(d, LAMBDA r : r.username = user) ELSE d

\* lines 101-103, on one of the two views
AccessControlFilter(d, user, role) ==
    IF role # "admin" THEN SelectSeq(d, LAMBDA r : r.username = user) ELSE d

\* Slip: the "if region_filter:" guard of line 133 left out, so an empty
\* region selection keeps no row.
apply_filters_Unguarded(d, rf, wf, of, ef, uf) ==
    LET d1 == SelectSeq(d, LAMBDA r : isin(r.region_name, rf))
        d2 == IF wf # {} THEN SelectSeq(d1, LAMBDA r : isin(r.woreda_name, wf)) ELSE d1
        d3 == IF of # {} THEN SelectSeq(d2, LAMBDA r : isin(r.event_organizer_name, of)) ELSE d2
        d4 == IF ef # {} THEN SelectSeq(d3, LAMBDA r : isin(r.event_id, ef)) ELSE d3
        d5 == IF uf # {} THEN SelectSeq(d4, LAMBDA r : isin(r.username, uf)) ELSE d4
    IN  d5

\* lines 132-143
apply_filters(d, rf, wf, of, ef, uf) ==
    LET d1 == IF rf # {} THEN SelectSeq(d, LAMBDA r : isin(r.region_name, rf)) ELSE d
        d2 == IF wf # {} THEN SelectSeq(d1, LAMBDA r : isin(r.woreda_name, wf)) ELSE d1
        d3 == IF of # {} THEN SelectSeq(d2, LAMBDA r : isin(r.event_organizer_name, of)) ELSE d2
        d4 == IF ef # {} THEN SelectSeq(d3, LAMBDA r : isin(r.event_id, ef)) ELSE d3
        d5 == IF uf # {} THEN SelectSeq(d4, LAMBDA r : isin(r.username, uf)) ELSE d4
    IN  d5

\* Slip: "|" for "&" in lines 167-168.
DateFilter_Either(d, range) ==
    IF Len(range) = 2
    THEN SelectSeq(d, LAMBDA r : r.date >= range[1] \/ r.date <= range[2])
    ELSE d

\* lines 164-169
DateFilter(d, range) ==
    IF Len(range) = 2
    THEN SelectSeq(d, LAMBDA r : r.date >= range[1] /\ r.date <= range[2])
    ELSE d

\* lines 194-201
daily_7(dt, today) ==
    LET last_7_days == today - WindowDays
        recent == SelectSeq(dt, LAMBDA r : r.date >= last_7_days)
    IN  ByKey(GroupSize(recent, "date", Days(recent, "date")), Days(recent, "date"))

\* lines 175-271
Aggregate(d, dt, today) ==
    [total      |-> Len(d),
     users      |-> nunique(d, "username"),
     regions    |-> nunique(d, "region_name"),
     woredas    |-> nunique(d, "woreda_name"),
     organizers |-> nunique(d, "event_organizer_name"),
     today      |-> Len(SelectSeq(dt, LAMBDA r : r.date = today)),
     this_month |-> Len(SelectSeq(dt, LAMBDA r : r.month = MonthOf(today))),
     daily_7       |-> daily_7(dt, today),
     monthly_trend |-> ByKey(GroupSize(dt, "month", Days(dt, "month")), Days(dt, "month")),
     user_summary  |-> ByRecordsDesc(GroupSize(d, "username", Unique(d, "username")),
                                     Unique(d, "username")),
     daily_user    |-> GroupSize2(dt, "date", Days(dt, "date"),
                                  "username", Unique(dt, "username")),
     geo_summary   |-> GroupSize2(d, "region_name", Unique(d, "region_name"),
                                  "woreda_name", Unique(d, "woreda_name")),
     event_summary |-> ByRecordsDesc(GroupSize(d, "event_id", Unique(d, "event_id")),
                                     Unique(d, "event_id"))]

(***************************************************************************)
(* One render cycle (Spec, SpecFilters)                                    *)
(***************************************************************************)
Identities == {<<"alice", "standard">>, <<"bob", "admin">>}

\* Rows that differ in owner and in received_on, and two rows with empty
\* cells.
RowsByDate ==
    {Row(u, "R1", "W1", "OrgA", "E1", t) :
        u \in {"alice", "bob"},
        t \in {Garbage, Timestamp(Today - WindowDays - 1, 23),
               Timestamp(Today - WindowDays, 0), Timestamp(Today, 9),
               Timestamp(Today + 1, 0)}}
    \cup {Row(NaN, "R1", "W1", "OrgA", NaN, Garbage),
          Row("alice", "R1", "W1", "OrgA", NaN, Missing)}

\* Rows that differ in the five filter dimensions: a base row, the rows
\* that differ from it in one dimension, the row that differs in all five,
\* and a row with an empty region cell.
BaseRow == Row("alice", "R1", "W1", "OrgA", "E1", Timestamp(Today, 9))
RowsByDimension ==
    {[BaseRow EXCEPT ![c] = IF c = "username" THEN "bob"
                            ELSE IF c = "region_name" THEN "R2"
                            ELSE IF c = "woreda_name" THEN "W2"
                            ELSE IF c = "event_organizer_name" THEN "OrgB"
                            ELSE "E2"] :
        c \in {"username", "region_name", "woreda_name",
               "event_organizer_name", "event_id"}}
    \cup {BaseRow,
          Row("bob", "R2", "W2", "OrgB", "E2", Timestamp(Today, 9)),
          Row("alice", NaN, "W1", "OrgA", "E1", Timestamp(Today, 9))}

NoOutput == [rendered |-> FALSE]

SessionsIdle ==
    /\ session_state = <<>>
    /\ spc = <<>>
    /\ file = <<>>
    /\ cache = <<>>
    /\ detached = <<>>
    /\ loaded = <<>>
    /\ settled = <<>>
    /\ uploads = 0
    /\ lastWritten = 0

ScriptStart ==
    /\ pc = "load"
    /\ df = <<>>
    /\ df_time = <<>>
    /\ region_filter = {}
    /\ woreda_filter = {}
    /\ organizer_filter = {}
    /\ event_filter = {}
    /\ username_filter = {}
    /\ date_range = <<>>
    /\ out = NoOutput

InitWith(rows) ==
    /\ data \in SeqsUpTo(rows, MaxRows)
    /\ \E id \in Identities : current_user = id[1] /\ current_role = id[2]
    /\ ScriptStart
    /\ SessionsIdle

Init == InitWith(RowsByDate)
InitFilters == InitWith(RowsByDimension)

\* line 82: load_data returns the rows of the file, its columns under the
\* names line 79 gives them.
LoadData ==
    /\ pc = "load"
    /\ df' = data
    /\ pc' = "date"
    /\ UNCHANGED <<data, current_user, current_role, df_time, region_filter,
                   woreda_filter, organizer_filter, event_filter, username_filter,
                   date_range, out, svars>>

\* lines 87-96
DateHandlingStep ==
    /\ pc = "date"
    /\ df_time' = DateHandling(df)
    /\ pc' = "acl"
    /\ UNCHANGED <<data, current_user, current_role, df, region_filter,
                   woreda_filter, organizer_filter, event_filter, username_filter,
                   date_range, out, svars>>

\* lines 101-104
AccessControl ==
    /\ pc = "acl"
    /\ df' = AccessControlFilter(df, current_user, current_role)
    /\ df_time' = AccessControlFilter(df_time, current_user, current_role)
    /\ pc' = "filters"
    /\ UNCHANGED <<data, current_user, current_role, region_filter,
                   woreda_filter, organizer_filter, event_filter, username_filter,
                   date_range, out, svars>>

\* Slip: line 146 left out, so only df goes through apply_filters.
SidebarFilters_DfOnly ==
    /\ pc = "filters"
    /\ \E rf \in SUBSET Unique(df, "region_name"),
          wf \in SUBSET Unique(df, "woreda_name"),
          of \in SUBSET Unique(df, "event_organizer_name"),
          ef \in SUBSET Unique(df, "event_id"),
          uf \in IF current_role = "admin" THEN SUBSET Unique(df, "username")
                 ELSE {{current_user}} :
            /\ region_filter' = rf
            /\ woreda_filter' = wf
            /\ organizer_filter' = of
            /\ event_filter' = ef
            /\ username_filter' = uf
            /\ df' = apply_filters(df, rf, wf, of, ef, uf)
    /\ pc' = "date_filter"
    /\ UNCHANGED <<data, current_user, current_role, df_time, date_range, out, svars>>

\* lines 111-146: each multiselect returns a subset of the options it was
\* given; then both views go through apply_filters.
SidebarFilters ==
    /\ pc = "filters"
    /\ \E rf \in SUBSET Unique(df, "region_name"),
          wf \in SUBSET Unique(df, "woreda_name"),
          of \in SUBSET Unique(df, "event_organizer_name"),
          ef \in SUBSET Unique(df, "event_id"),
          uf \in IF current_role = "admin" THEN SUBSET Unique(df, "username")
                 ELSE {{current_user}} :
            /\ region_filter' = rf
            /\ woreda_filter' = wf
            /\ organizer_filter' = of
            /\ event_filter' = ef
            /\ username_filter' = uf
            /\ df' = apply_filters(df, rf, wf, of, ef, uf)
            /\ df_time' = apply_filters(df_time, rf, wf, of, ef, uf)
    /\ pc' = "date_filter"
    /\ UNCHANGED <<data, current_user, current_role, date_range, out, svars>>

\* What st.sidebar.date_input (lines 153-161) can return: a (start, end)
\* pair, or a 1-tuple while the user has picked only the start.  The widget
\* offers the days from min_date to max_date; every (start, end) in that
\* span selects the same rows as some pair of dates present in df_time, so
\* those pairs are the ones enumerated.
DateInputValues(dt) ==
    LET days == Days(dt, "date")
    IN  (days \X days) \cup {<<d>> : d \in days}

\* lines 153-169
DateFilterStep ==
    /\ pc = "date_filter"
    /\ df_time # <<>>
    /\ \E range \in DateInputValues(df_time) :
            /\ date_range' = range
            /\ df_time' = DateFilter(df_time, range)
    /\ pc' = "aggregate"
    /\ UNCHANGED <<data, current_user, current_role, df, region_filter,
                   woreda_filter, organizer_filter, event_filter, username_filter,
                   out, svars>>

\* lines 153-161 when df_time is empty: min() and max() of the empty date
\* column are NaN, and date_input rejects a value that is not a date
\* (StreamlitAPIException), which ends the script run before any figure is
\* drawn.
DateInputEmpty ==
    /\ pc = "date_filter"
    /\ df_time = <<>>
    /\ pc' = "failed"
    /\ UNCHANGED <<data, current_user, current_role, df, df_time, region_filter,
                   woreda_filter, organizer_filter, event_filter, username_filter,
                   date_range, out, svars>>

\* lines 175-281
AggregateStep ==
    /\ pc = "aggregate"
    /\ out' = [rendered |-> TRUE] @@ Aggregate(df, df_time, Today)
    /\ pc' = "done"
    /\ UNCHANGED <<data, current_user, current_role, df, df_time, region_filter,
                   woreda_filter, organizer_filter, event_filter, username_filter,
                   date_range, svars>>

\* A widget interaction starts the script again from the top.
Rerun ==
    /\ pc \in {"done", "failed"}
    /\ pc' = "load"
    /\ df' = <<>>
    /\ df_time' = <<>>
    /\ region_filter' = {}
    /\ woreda_filter' = {}
    /\ organizer_filter' = {}
    /\ event_filter' = {}
    /\ username_filter' = {}
    /\ date_range' = <<>>
    /\ out' = NoOutput
    /\ UNCHANGED <<data, current_user, current_role, svars>>

Next ==
    \/ LoadData
    \/ DateHandlingStep
    \/ AccessControl
    \/ SidebarFilters
    \/ DateFilterStep
    \/ DateInputEmpty
    \/ AggregateStep
    \/ Rerun

Spec == Init /\ [][Next]_vars
SpecFilters == InitFilters /\ [][Next]_vars

(***************************************************************************)
(* Concurrent sessions (SpecSessions)                                      *)
(*                                                                         *)
(* Streamlit runs each session's script in its own thread; the threads     *)
(* share the data file and the st.cache_data cache.  A step below is one   *)
(* access to shared state, or a stretch of the script between two.         *)
(***************************************************************************)
NumSessions == 2
MaxUploads == 2
Sessions == 1..NumSessions

\* The bytes of the k-th file handed to the uploader, in blocks; file 0 is
\* the file on disk at the start.  Files differ in length.
Size(k) == 1 + (k % 2)
Content(k) == [i \in 1..Size(k) |-> <<k, i>>]

\* pd.read_excel raises on bytes that are not one whole workbook.
Corrupt == -1

\* line 78: the dataset of a workbook is identified by the upload it came from.
read_excel(bytes) ==
    IF \E k \in 0..MaxUploads : bytes = Content(k)
    THEN CHOOSE k \in 0..MaxUploads : bytes = Content(k)
    ELSE Corrupt

\* f.write(buffer) on a handle opened at offset 0: the buffer replaces the
\* first Len(buffer) blocks; blocks beyond it stay.
WriteAtStart(bytes, buffer) ==
    [i \in 1..(IF Len(bytes) > Len(buffer) THEN Len(bytes) ELSE Len(buffer)) |->
        IF i <= Len(buffer) THEN buffer[i] ELSE bytes[i]]

LoginKeys == {"logged_in", "user", "role"}

LoggedIn(s) == "logged_in" \in DOMAIN session_state[s] /\ session_state[s]["logged_in"]

\* lines 44-51: the uploader is shown to an admin and holds a file
Uploaded(s) ==
    /\ session_state[s]["role"] = "admin"
    /\ "uploader" \in DOMAIN session_state[s]

\* Between open(DATA_PATH, "wb") and st.rerun() of lines 52-70.
Uploading(s) == spc[s] \in {"opened", "written", "cleared", "reset"}

InitSessions ==
    /\ data = <<>>
    /\ current_user = NaN
    /\ current_role = NaN
    /\ pc = "off"
    /\ df = <<>>
    /\ df_time = <<>>
    /\ region_filter = {}
    /\ woreda_filter = {}
    /\ organizer_filter = {}
    /\ event_filter = {}
    /\ username_filter = {}
    /\ date_range = <<>>
    /\ out = NoOutput
    /\ session_state = [s \in Sessions |-> <<>>]
    /\ spc = [s \in Sessions |-> "idle"]
    /\ file = Content(0)
    /\ cache = <<>>
    /\ detached = [s \in Sessions |-> FALSE]
    /\ loaded = [s \in Sessions |-> <<>>]
    /\ settled = [s \in Sessions |-> FALSE]
    /\ uploads = 0
    /\ lastWritten = 0

\* login() of login.py, lines 18-23: the form accepts credentials and
\* records the identity in the session; the script then runs again and,
\* a new session holding no file, reaches load_data.
Login(s) ==
    /\ spc[s] = "idle"
    /\ ~LoggedIn(s)
    /\ \E id \in Identities :
          session_state' = [session_state EXCEPT ![s] =
              [k \in LoginKeys |-> IF k = "logged_in" THEN TRUE
                                   ELSE IF k = "user" THEN id[1] ELSE id[2]]]
    /\ spc' = [spc EXCEPT ![s] = "lookup"]
    /\ UNCHANGED <<pvars, file, cache, detached, loaded, settled, uploads, lastWritten>>

\* lines 33-35: the Logout button; the rerun stops at the login form
\* (lines 18-23).
Logout(s) ==
    /\ spc[s] = "idle"
    /\ LoggedIn(s)
    /\ session_state' = [session_state EXCEPT ![s] = <<>>]
    /\ UNCHANGED <<pvars, spc, file, cache, detached, loaded, settled, uploads,
                   lastWritten>>

\* The admin drops a file on the uploader of lines 45-49 (key="uploader"),
\* and the script starts.
PickFile(s) ==
    /\ spc[s] = "idle"
    /\ LoggedIn(s)
    /\ session_state[s]["role"] = "admin"
    /\ uploads < MaxUploads
    /\ uploads' = uploads + 1
    /\ session_state' = [session_state EXCEPT ![s] = ("uploader" :> uploads') @@ @]
    /\ spc' = [spc EXCEPT ![s] = "start"]
    /\ UNCHANGED <<pvars, file, cache, detached, loaded, settled, lastWritten>>

\* Any other widget interaction (a filter, the date range): the script
\* runs lines 18-51, finds no file to store, and reaches load_data.
Interact(s) ==
    /\ spc[s] = "idle"
    /\ LoggedIn(s)
    /\ ~Uploaded(s)
    /\ spc' = [spc EXCEPT ![s] = "lookup"]
    /\ UNCHANGED <<pvars, session_state, file, cache, detached, loaded, settled,
                   uploads, lastWritten>>

\* line 52: open(DATA_PATH, "wb") truncates the file
OpenFile(s) ==
    /\ spc[s] = "start"
    /\ Uploaded(s)
    /\ file' = <<>>
    /\ settled' = [t \in Sessions |-> FALSE]
    /\ spc' = [spc EXCEPT ![s] = "opened"]
    /\ UNCHANGED <<pvars, session_state, cache, detached, loaded, uploads, lastWritten>>

\* line 53, and the close at the end of the with block
WriteFile(s) ==
    /\ spc[s] = "opened"
    /\ file' = WriteAtStart(file, Content(session_state[s]["uploader"]))
    /\ lastWritten' = session_state[s]["uploader"]
    /\ spc' = [spc EXCEPT ![s] = "written"]
    /\ UNCHANGED <<pvars, session_state, cache, detached, loaded, settled, uploads>>

\* Slip: line 56 left out.
ClearCache_Skipped(s) ==
    /\ spc[s] = "written"
    /\ spc' = [spc EXCEPT ![s] = "cleared"]
    /\ UNCHANGED <<pvars, session_state, file, cache, detached, loaded, settled,
                   uploads, lastWritten>>

\* line 56: st.cache_data.clear() drops every function cache object; a
\* load_data call that is computing keeps the object it looked up, which
\* no later call will see.
ClearCache(s) ==
    /\ spc[s] = "written"
    /\ cache' = <<>>
    /\ detached' = [t \in Sessions |-> TRUE]
    /\ spc' = [spc EXCEPT ![s] = "cleared"]
    /\ UNCHANGED <<pvars, session_state, file, loaded, settled, uploads, lastWritten>>

\* Slip: lines 59-61 placed after the clear() of line 63, so each get()
\* answers None.
HardReset_AfterClear(s) ==
    /\ spc[s] = "cleared"
    /\ session_state' = [session_state EXCEPT ![s] =
           ("logged_in" :> FALSE) @@ ("user" :> NaN) @@ ("role" :> NaN)]
    /\ spc' = [spc EXCEPT ![s] = "reset"]
    /\ UNCHANGED <<pvars, file, cache, detached, loaded, settled, uploads, lastWritten>>

\* lines 59-67
HardReset(s) ==
    /\ spc[s] = "cleared"
    /\ LET logged_in == session_state[s]["logged_in"]
           user == session_state[s]["user"]
           role == session_state[s]["role"]
       IN  session_state' = [session_state EXCEPT ![s] =
               ("logged_in" :> logged_in) @@ ("user" :> user) @@ ("role" :> role)]
    /\ spc' = [spc EXCEPT ![s] = "reset"]
    /\ UNCHANGED <<pvars, file, cache, detached, loaded, settled, uploads, lastWritten>>

\* lines 69-70: st.rerun(); the new run finds the uploader empty and
\* reaches load_data.
RerunAfterUpload(s) ==
    /\ spc[s] = "reset"
    /\ spc' = [spc EXCEPT ![s] = "lookup"]
    /\ UNCHANGED <<pvars, session_state, file, cache, detached, loaded, settled,
                   uploads, lastWritten>>

\* line 82, entry of the cached function: it takes the live function cache
\* object and looks the path up in it.
CacheLookup(s) ==
    /\ spc[s] = "lookup"
    /\ detached' = [detached EXCEPT ![s] = FALSE]
    /\ settled' = [settled EXCEPT ![s] = \A t \in Sessions : ~Uploading(t)]
    /\ IF cache # <<>>
       THEN /\ loaded' = [loaded EXCEPT ![s] = cache]
            /\ spc' = [spc EXCEPT ![s] = "render"]
       ELSE /\ loaded' = [loaded EXCEPT ![s] = <<>>]
            /\ spc' = [spc EXCEPT ![s] = "read"]
    /\ UNCHANGED <<pvars, session_state, file, cache, uploads, lastWritten>>

\* lines 78-80 on a cache miss, the file being a whole workbook
ReadFile(s) ==
    /\ spc[s] = "read"
    /\ read_excel(file) # Corrupt
    /\ loaded' = [loaded EXCEPT ![s] = <<read_excel(file)>>]
    /\ spc' = [spc EXCEPT ![s] = "store"]
    /\ UNCHANGED <<pvars, session_state, file, cache, detached, settled, uploads,
                   lastWritten>>

\* line 78 on a cache miss, the file being empty or mixed: read_excel
\* raises and the script run ends with the error shown.
LoadError(s) ==
    /\ spc[s] = "read"
    /\ read_excel(file) = Corrupt
    /\ spc' = [spc EXCEPT ![s] = "idle"]
    /\ detached' = [detached EXCEPT ![s] = FALSE]
    /\ settled' = [settled EXCEPT ![s] = FALSE]
    /\ UNCHANGED <<pvars, session_state, file, cache, loaded, uploads, lastWritten>>

\* return of the cached function after a miss: the value goes into the
\* cache object the call looked up.
CacheStore(s) ==
    /\ spc[s] = "store"
    /\ cache' = IF detached[s] THEN cache ELSE loaded[s]
    /\ spc' = [spc EXCEPT ![s] = "render"]
    /\ UNCHANGED <<pvars, session_state, file, detached, loaded, settled, uploads,
                   lastWritten>>

\* lines 87-281: the rest of the script works on the returned dataset,
\* which the run then lets go of.
Render(s) ==
    /\ spc[s] = "render"
    /\ spc' = [spc EXCEPT ![s] = "idle"]
    /\ loaded' = [loaded EXCEPT ![s] = <<>>]
    /\ detached' = [detached EXCEPT ![s] = FALSE]
    /\ settled' = [settled EXCEPT ![s] = FALSE]
    /\ UNCHANGED <<pvars, session_state, file, cache, uploads, lastWritten>>

NextSessions ==
    \E s \in Sessions :
        \/ Login(s)
        \/ Logout(s)
        \/ PickFile(s)
        \/ Interact(s)
        \/ OpenFile(s)
        \/ WriteFile(s)
        \/ ClearCache(s)
        \/ HardReset(s)
        \/ RerunAfterUpload(s)
        \/ CacheLookup(s)
        \/ ReadFile(s)
        \/ LoadError(s)
        \/ CacheStore(s)
        \/ Render(s)

SpecSessions == InitSessions /\ [][NextSessions]_vars

(***************************************************************************)
(* Properties of one render cycle                                          *)
(***************************************************************************)
\* Sum of the "records" column of a summary table.
RECURSIVE SumRecords(_)
SumRecords(t) == IF t = <<>> THEN 0 ELSE Head(t).records + SumRecords(Tail(t))

\* Number of rows of d satisfying P.
Count(d, P(_)) == Cardinality({i \in Indices(d) : P(d[i])})

AfterAccessControl == pc \in {"filters", "date_filter", "aggregate", "done", "failed"}
AfterFilters == pc \in {"date_filter", "aggregate", "done", "failed"}
AfterDateFilter == pc \in {"aggregate", "done"}

\* The rows of the file the identity may see.
Visible == IF current_role = "admin" THEN data
           ELSE SelectSeq(data, LAMBDA r : r.username = current_user)

\* A row satisfies the sidebar selection: every dimension with a non-empty
\* selection holds one of the selected values.
Selected(r) ==
    /\ region_filter = {} \/ r.region_name \in region_filter
    /\ woreda_filter = {} \/ r.woreda_name \in woreda_filter
    /\ organizer_filter = {} \/ r.event_organizer_name \in organizer_filter
    /\ event_filter = {} \/ r.event_id \in event_filter
    /\ username_filter = {} \/ r.username \in username_filter

\* The columns of a df_time row that come from the file.
FileColumns(r) == <<r.username, r.region_name, r.woreda_name,
                    r.event_organizer_name, r.event_id>>

\* C1: for an identity that is not admin, from the access-control step on
\* every row of df and of df_time is owned by that identity, through
\* apply_filters and the date filter, and every table and count shown is
\* made of that identity's rows only.
C1_OwnRowsOnly ==
    (current_role # "admin" /\ AfterAccessControl) =>
        /\ \A i \in Indices(df) : df[i].username = current_user
        /\ \A i \in Indices(df_time) : df_time[i].username = current_user
        /\ pc = "done" =>
            /\ out.total <= Count(data, LAMBDA r : r.username = current_user)
            /\ out.users <= 1
            /\ \A j \in Indices(out.user_summary) :
                  out.user_summary[j].key = current_user
            /\ \A k \in DOMAIN out.daily_user : k[2] = current_user
            /\ SumRecords(out.monthly_trend)
                  <= Count(data, LAMBDA r : r.username = current_user)

C1_Witness ==
    /\ current_role # "admin"
    /\ pc = "done"
    /\ out.total >= 1
    /\ SumRecords(out.monthly_trend) >= 1
    /\ \E i \in Indices(data) : data[i].username \notin {current_user, NaN}

\* C2: after apply_filters, df holds exactly the visible rows that satisfy
\* every non-empty dimension of the selection, in file order, and df_time
\* holds exactly those of them that carry a timestamp; with every selection
\* empty both are the views that went in.
C2_FilterExact ==
    AfterFilters =>
        /\ df = SelectSeq(Visible, Selected)
        /\ Len(df_time) <= Len(df)
        /\ \A i \in Indices(df_time) : Selected(df_time[i])
        /\ Len(df_time) = Count(Visible,
              LAMBDA r : Selected(r) /\ r.received_on.kind = "timestamp")
        /\ (region_filter = {} /\ woreda_filter = {} /\ organizer_filter = {}
              /\ event_filter = {} /\ username_filter = {}) => df = Visible

C2_Witness ==
    /\ pc = "date_filter"
    /\ current_role = "admin"
    /\ region_filter # {}
    /\ woreda_filter = {}
    /\ event_filter # {}
    /\ Len(data) = 2
    /\ Len(df) = 1
    /\ \E i \in Indices(data) : data[i].region_name \notin region_filter
                                /\ data[i].event_id \in event_filter

\* C3 as claimed: a row without a usable received_on that passes access
\* control and the sidebar selection is in no date-derived figure, and is
\* counted in "Total records" and in the records-per-user table.
C3_UndatedRowsCounted ==
    pc = "done" =>
        LET shown   == SelectSeq(Visible, Selected)
            undated == SelectSeq(shown, LAMBDA r : to_datetime(r.received_on) = NaT)
            dated   == Len(shown) - Len(undated)
        IN  /\ SumRecords(out.daily_7) <= dated
            /\ SumRecords(out.monthly_trend) <= dated
            /\ out.today <= dated
            /\ out.this_month <= dated
            /\ \A k \in DOMAIN out.daily_user : out.daily_user[k] <= dated
            /\ out.total = Len(shown)
            /\ \A i \in Indices(undated) :
                  \E j \in Indices(out.user_summary) :
                      /\ out.user_summary[j].key = undated[i].username
                      /\ out.user_summary[j].records
                            >= Count(undated, LAMBDA r : r.username = undated[i].username)

\* C4: once both views exist, the date view never has more rows than the
\* non-date view, and every row of it is a row of the non-date view.
C4_DateViewSmaller ==
    pc \in {"acl", "filters", "date_filter", "aggregate", "done", "failed"} =>
        /\ Len(df_time) <= Len(df)
        /\ \A i \in Indices(df_time) :
              Count(df_time, LAMBDA r : FileColumns(r) = FileColumns(df_time[i])
                                        /\ r.received_on = df_time[i].received_on)
              <= Count(df, LAMBDA r : FileColumns(r) = FileColumns(df_time[i])
                                      /\ to_datetime(r.received_on) = df_time[i].received_on)

C4_Witness ==
    /\ pc = "done"
    /\ Len(df) = 2
    /\ Len(df_time) = 1
    /\ Len(date_range) = 2
    /\ date_range[1] = date_range[2]
    /\ to_datetime(df[1].received_on) # NaT
    /\ to_datetime(df[2].received_on) # NaT

\* C5 as claimed: the counts of the records-by-event table add up to
\* "Total records".
C5_EventSummarySumsToTotal ==
    pc = "done" => SumRecords(out.event_summary) = out.total

\* C6 as claimed: the last-7-days series holds exactly the days from
\* today-6 to today that have a row in the date view, each with its count,
\* in chronological order.
C6_DailyWindow ==
    pc = "done" =>
        LET window == {d \in Days(df_time, "date") :
                          Today - WindowDays <= d /\ d <= Today}
        IN  /\ {out.daily_7[j].key : j \in Indices(out.daily_7)} = window
            /\ Len(out.daily_7) = Cardinality(window)
            /\ \A j \in Indices(out.daily_7) :
                  /\ out.daily_7[j].records
                        = Count(df_time, LAMBDA r : r.date = out.daily_7[j].key)
                  /\ out.daily_7[j].records >= 1
            /\ \A j, k \in Indices(out.daily_7) :
                  j < k => out.daily_7[j].key < out.daily_7[k].key

InvertedRange == Len(date_range) = 2 /\ date_range[1] > date_range[2]

\* C7: with a date range whose start is later than its end the script runs
\* on, the date view is empty, and the non-date view and the figures
\* computed from it are those of the visible, selected rows, whatever the
\* range.
C7_InvertedRange ==
    InvertedRange =>
        /\ AfterDateFilter
        /\ df_time = <<>>
        /\ df = SelectSeq(Visible, Selected)
        /\ pc = "done" =>
            /\ out.rendered
            /\ out.total = Len(SelectSeq(Visible, Selected))
            /\ out.users = nunique(SelectSeq(Visible, Selected), "username")
            /\ out.regions = nunique(SelectSeq(Visible, Selected), "region_name")
            /\ out.woredas = nunique(SelectSeq(Visible, Selected), "woreda_name")
            /\ out.organizers
                  = nunique(SelectSeq(Visible, Selected), "event_organizer_name")
            /\ out.today = 0
            /\ out.this_month = 0
            /\ out.daily_7 = <<>>
            /\ out.monthly_trend = <<>>

C7_Witness ==
    /\ InvertedRange
    /\ pc = "done"
    /\ out.total = 2
    /\ out.users = 2

(***************************************************************************)
(* Properties of concurrent sessions                                       *)
(***************************************************************************)
NoUploadInProgress == \A t \in Sessions : ~Uploading(t)

\* C8: a load_data call that began when no upload was in progress, none
\* having begun since, returns the dataset of the file now on disk; and
\* while no upload is in progress the cache holds nothing but that dataset.
C8_CacheFollowsFile ==
    /\ \A s \in Sessions :
          (settled[s] /\ spc[s] \in {"store", "render"}) =>
              loaded[s] = <<read_excel(file)>> /\ read_excel(file) # Corrupt
    /\ (NoUploadInProgress /\ cache # <<>>) => cache = <<read_excel(file)>>

C8_Witness ==
    \E s, t \in Sessions :
        /\ s # t
        /\ LoggedIn(s)
        /\ session_state[s]["role"] # "admin"
        /\ spc[s] = "render"
        /\ settled[s]
        /\ loaded[s] = <<lastWritten>>
        /\ lastWritten >= 1
        /\ spc[t] = "idle"
        /\ cache = loaded[s]

\* C9 as claimed: once every upload that was started has run to its end,
\* the data file holds exactly the bytes of the upload whose write finished
\* last.
C9_LastWriteWins ==
    (NoUploadInProgress /\ lastWritten # 0) => file = Content(lastWritten)

Identity(s) == [k \in LoginKeys |-> session_state[s][k]]

\* C10: a step of a logged-in session that is not its logout leaves
\* logged_in, user and role as they were, and the hard reset leaves the
\* session with these three keys and no other.
C10_IdentityKept ==
    [][\A s \in Sessions :
          LoggedIn(s) =>
              /\ Logout(s) \/ (LoggedIn(s)' /\ Identity(s)' = Identity(s))
              /\ HardReset(s) => /\ DOMAIN session_state'[s] = LoginKeys
                                 /\ "uploader" \in DOMAIN session_state[s]]_vars

C10_Witness ==
    \E s \in Sessions :
        /\ spc[s] = "reset"
        /\ DOMAIN session_state[s] = LoginKeys
        /\ session_state[s]["logged_in"]
        /\ session_state[s]["role"] = "admin"
        /\ lastWritten >= 1

====
